---- MODULE Spec2Model ----
(***************************************************************************)
(* Go Dojo: the rules engine embedded in the Home page component           *)
(* (src/unnamed/part_000).  The React state of the component is the state  *)
(* of the model; every event handler is one action, because a handler runs *)
(* to completion on the values of the render it was created in and React   *)
(* commits all of its setState calls together before the next event.       *)
(***************************************************************************)
EXTENDS Integers, Sequences, FiniteSets, TLC

\* Side of the board.  The program uses 19; the model checks a small board.
BOARD_SIZE == 3

\* Cap on the stones captured by both players together since the last reset
\* (the program's tallies are unbounded).
MaxCaptures == 2

Player == {"black", "white"}

\* JavaScript null: an empty intersection, or no winner.
Null == "null"

Idx == 0 .. (BOARD_SIZE - 1)

\* Coordinates a click may carry: the board plus one step outside each edge.
Coord == -1 .. BOARD_SIZE

\* A position [r, c]; the string key `${r},${c}` of the program is modelled
\* by the same pair, and split(',').map(Number) maps it back (both are
\* injective on integers).
Pos == Idx \X Idx

\* The clicks the environment issues: every point of the board, and off the
\* board a row or a column (or both) one step below or above the range.
OffBoardClicks ==
  {<<-1, 0>>, <<BOARD_SIZE, 0>>, <<0, -1>>, <<0, BOARD_SIZE>>,
   <<-1, -1>>, <<BOARD_SIZE, BOARD_SIZE>>}

Clicks == Pos \cup OffBoardClicks

createEmptyBoard == [p \in Pos |-> Null]

\* A slip: a strict comparison on the row.
InBounds_Strict(r, c) == r > 0 /\ r < BOARD_SIZE /\ c >= 0 /\ c < BOARD_SIZE

InBounds(r, c) == r >= 0 /\ r < BOARD_SIZE /\ c >= 0 /\ c < BOARD_SIZE

\* A slip in the neighbour list: the left neighbour twice, the right one missing.
NeighborList_Typo(r, c) ==
  << <<r - 1, c>>, <<r + 1, c>>, <<r, c - 1>>, <<r, c - 1>> >>

\* The neighbour list, in the order the program builds it.
NeighborList(r, c) == << <<r - 1, c>>, <<r + 1, c>>, <<r, c - 1>>, <<r, c + 1>> >>

\* A slip: both branches give the same colour.
OpponentOf_Typo(p) == IF p = "black" THEN "white" ELSE "white"

OpponentOf(p) == IF p = "black" THEN "white" ELSE "black"

InBoundsSeq(s) == SelectSeq(s, LAMBDA n : InBounds(n[1], n[2]))

SeqToSet(s) == {s[i] : i \in 1 .. Len(s)}

(***************************************************************************)
(* getGroup: the work-queue traversal.  q is the queue, visited is         *)
(* visitedThisSearch, pushed records every entry ever put on the queue     *)
(* (the start included), in order, and expanded records every entry that   *)
(* passed the visited test and was added to stones, in order.              *)
(***************************************************************************)
\* A slip: the dequeued entry is not tested against visitedThisSearch.
RECURSIVE getGroupLoop_NoVisitedSkip(_, _, _, _, _, _, _, _)
getGroupLoop_NoVisitedSkip(targetBoard, player, q, visited, stones, liberties, pushed, expanded) ==
  IF q = <<>>
  THEN [stones |-> stones, liberties |-> liberties, pushed |-> pushed,
        expanded |-> expanded]
  ELSE LET curr == Head(q)
           rest == Tail(q)
           visited2 == visited \cup {curr}
       IN IF InBounds(curr[1], curr[2]) /\ targetBoard[curr] = player
          THEN LET nbrs == InBoundsSeq(NeighborList(curr[1], curr[2]))
                   libs == {n \in SeqToSet(nbrs) : targetBoard[n] = Null}
                   more == SelectSeq(nbrs, LAMBDA n :
                             targetBoard[n] = player /\ n \notin visited2)
               IN getGroupLoop_NoVisitedSkip(
                    targetBoard, player, rest \o more, visited2,
                    stones \cup {curr}, liberties \cup libs,
                    pushed \o more, Append(expanded, curr))
          ELSE getGroupLoop_NoVisitedSkip(
                 targetBoard, player, rest, visited2, stones, liberties,
                 pushed, expanded)

RECURSIVE getGroupLoop(_, _, _, _, _, _, _, _)
getGroupLoop(targetBoard, player, q, visited, stones, liberties, pushed, expanded) ==
  IF q = <<>>
  THEN [stones |-> stones, liberties |-> liberties, pushed |-> pushed,
        expanded |-> expanded]
  ELSE LET curr == Head(q)
           rest == Tail(q)
       IN IF curr \in visited
          THEN getGroupLoop(targetBoard, player, rest, visited, stones,
                            liberties, pushed, expanded)
          ELSE LET visited2 == visited \cup {curr}
               IN IF InBounds(curr[1], curr[2]) /\ targetBoard[curr] = player
                  THEN LET nbrs == InBoundsSeq(NeighborList(curr[1], curr[2]))
                           libs == {n \in SeqToSet(nbrs) : targetBoard[n] = Null}
                           more == SelectSeq(nbrs, LAMBDA n :
                                     targetBoard[n] = player /\ n \notin visited2)
                       IN getGroupLoop(targetBoard, player, rest \o more,
                                       visited2, stones \cup {curr},
                                       liberties \cup libs, pushed \o more,
                                       Append(expanded, curr))
                  ELSE getGroupLoop(targetBoard, player, rest, visited2,
                                    stones, liberties, pushed, expanded)

\* A slip: the early return for a start without a stone left out.
getGroup_NoEmptyGuard(targetBoard, r, c) ==
  IF ~InBounds(r, c)
  THEN [stones |-> {}, liberties |-> {}, pushed |-> <<>>, expanded |-> <<>>]
  ELSE getGroupLoop(targetBoard, targetBoard[<<r, c>>], << <<r, c>> >>,
                    {}, {}, {}, << <<r, c>> >>, <<>>)

\* targetBoard[r]?.[c] is undefined off the board and null on an empty point:
\* both take the early return.
getGroup(targetBoard, r, c) ==
  IF ~InBounds(r, c) \/ targetBoard[<<r, c>>] = Null
  THEN [stones |-> {}, liberties |-> {}, pushed |-> <<>>, expanded |-> <<>>]
  ELSE getGroupLoop(targetBoard, targetBoard[<<r, c>>], << <<r, c>> >>,
                    {}, {}, {}, << <<r, c>> >>, <<>>)

(***************************************************************************)
(* The capture scan of handleCellClick: the loop over the four neighbours  *)
(* of the placed stone, on the working copy tempBoard.                     *)
(***************************************************************************)
\* A slip: the test on the cell's colour turned round, so no stone of the
\* group is cleared.
RemoveGroup_WrongColour(tempBoard, groupStones, opponent) ==
  [p \in Pos |-> IF p \in groupStones /\ tempBoard[p] # opponent
                 THEN Null ELSE tempBoard[p]]

RemoveGroup(tempBoard, groupStones, opponent) ==
  [p \in Pos |-> IF p \in groupStones /\ tempBoard[p] = opponent
                 THEN Null ELSE tempBoard[p]]

\* A slip: the tally counts captured groups, not captured stones.
RECURSIVE CaptureScan_CountsGroups(_, _, _, _)
CaptureScan_CountsGroups(tempBoard, nbrs, opponent, captured) ==
  IF nbrs = <<>>
  THEN [board |-> tempBoard, captured |-> captured]
  ELSE LET n == Head(nbrs)
       IN IF InBounds(n[1], n[2]) /\ tempBoard[n] = opponent
          THEN LET g == getGroup(tempBoard, n[1], n[2])
               IN IF Cardinality(g.liberties) = 0
                  THEN CaptureScan_CountsGroups(
                         RemoveGroup(tempBoard, g.stones, opponent),
                         Tail(nbrs), opponent, captured + 1)
                  ELSE CaptureScan_CountsGroups(tempBoard, Tail(nbrs),
                                                opponent, captured)
          ELSE CaptureScan_CountsGroups(tempBoard, Tail(nbrs), opponent,
                                        captured)

RECURSIVE CaptureScan(_, _, _, _)
CaptureScan(tempBoard, nbrs, opponent, captured) ==
  IF nbrs = <<>>
  THEN [board |-> tempBoard, captured |-> captured]
  ELSE LET n == Head(nbrs)
       IN IF InBounds(n[1], n[2]) /\ tempBoard[n] = opponent
          THEN LET g == getGroup(tempBoard, n[1], n[2])
               IN IF Cardinality(g.liberties) = 0
                  THEN CaptureScan(RemoveGroup(tempBoard, g.stones, opponent),
                                   Tail(nbrs), opponent,
                                   captured + Cardinality({p \in g.stones :
                                                  tempBoard[p] = opponent}))
                  ELSE CaptureScan(tempBoard, Tail(nbrs), opponent, captured)
          ELSE CaptureScan(tempBoard, Tail(nbrs), opponent, captured)

\* A slip: the capture scan left out, so the suicide test sees the board
\* before any capture.
Resolve_NoCaptureScan(b, r, c, mover) ==
  [board |-> [b EXCEPT ![<<r, c>>] = mover], captured |-> 0]

\* Tentative placement followed by the capture scan.
Resolve(b, r, c, mover) ==
  CaptureScan([b EXCEPT ![<<r, c>>] = mover], NeighborList(r, c),
              OpponentOf(mover), 0)

\* A slip: the comparison of the capture count turned round.
IsSuicide_CapturedNonZero(res, r, c) ==
  Cardinality(getGroup(res.board, r, c).liberties) = 0 /\ res.captured # 0

\* The suicide test on the post-capture working board.
IsSuicide(res, r, c) ==
  Cardinality(getGroup(res.board, r, c).liberties) = 0 /\ res.captured = 0

CountStones(b, colour) == Cardinality({p \in Pos : b[p] = colour})

\* A slip: "some" cell is occupied instead of "every" cell.
IsBoardFull_Some(b) == \E p \in Pos : b[p] # Null

\* A slip: the scan for an empty cell stops after the first row.
IsBoardFull_FirstRow(b) == \A p \in Pos : p[1] = 0 => b[p] # Null

IsBoardFull(b) == \A p \in Pos : b[p] # Null

\* Winner of a filled board, from the tallies the handler's render saw.
GameWinner(b, bScore, wScore) ==
  LET finalBlackScore == CountStones(b, "black") + bScore
      finalWhiteScore == CountStones(b, "white") + wScore
  IN IF finalBlackScore > finalWhiteScore THEN "black"
     ELSE IF finalWhiteScore > finalBlackScore THEN "white"
     ELSE Null

(***************************************************************************)
(* The handlers as functions of the session s they run on.  A result holds *)
(* the session the handler leaves, the titles of the toasts it issued, in  *)
(* order, whether it ended in an exception, and the placement it committed *)
(* (position and vacated cells), if any.                                   *)
(***************************************************************************)
NoPlace == [pos |-> <<>>, vacated |-> {}]

NoEffect(s, toastTitles, thrown) ==
  [session |-> s, toasts |-> toastTitles, threw |-> thrown, place |-> NoPlace]

\* A slip: the first guard without the test for an occupied cell.
ClickGuard_NoOccupancy(s, r, c) ==
  IF s.gameOver THEN "return"
  ELSE IF r < 0 \/ r >= BOARD_SIZE THEN "throw"
  ELSE IF c < 0 \/ c >= BOARD_SIZE THEN "return"
  ELSE "proceed"

\* The first guard: gameOver || board[rowIndex][colIndex] !== null.
\* board[rowIndex] is undefined for a row outside the board, and reading
\* [colIndex] of it throws; board[rowIndex][colIndex] is undefined for a
\* column outside the board, and undefined !== null holds.
ClickGuard(s, r, c) ==
  IF s.gameOver THEN "return"
  ELSE IF r < 0 \/ r >= BOARD_SIZE THEN "throw"
  ELSE IF c < 0 \/ c >= BOARD_SIZE THEN "return"
  ELSE IF s.board[<<r, c>>] # Null THEN "return"
  ELSE "proceed"

\* A slip: the branches of the tally update swapped.
ScoreAfter_Opponent(colour, mover, score, captured) ==
  IF mover # colour THEN score + captured ELSE score

\* setBlackScore / setWhiteScore: the tally of colour after mover's
\* placement captured that many stones.
ScoreAfter(colour, mover, score, captured) ==
  IF mover = colour THEN score + captured ELSE score

\* The toast of a capturing placement.
CaptureToast(captured) == IF captured > 0 THEN <<"Capture!">> ELSE <<>>

\* handleCellClick from the suicide test on; res is the capture scan's result.
Commit(s, r, c, res) ==
  IF IsSuicide(res, r, c)
  THEN NoEffect(s, <<"Invalid Move">>, FALSE)
  ELSE LET full == IsBoardFull(res.board)
           gameWinner == GameWinner(res.board, s.blackScore, s.whiteScore)
       IN [session |->
             [board |-> res.board,
              currentPlayer |-> IF full THEN s.currentPlayer
                                ELSE OpponentOf(s.currentPlayer),
              gameOver |-> IF full THEN TRUE ELSE s.gameOver,
              winner |-> IF full /\ gameWinner # Null THEN gameWinner
                         ELSE s.winner,
              blackScore |-> ScoreAfter("black", s.currentPlayer,
                                        s.blackScore, res.captured),
              whiteScore |-> ScoreAfter("white", s.currentPlayer,
                                        s.whiteScore, res.captured)],
           toasts |-> CaptureToast(res.captured)
                      \o (IF full THEN <<"Game Over!">> ELSE <<>>),
           threw |-> FALSE,
           place |-> [pos |-> <<r, c>>,
                      vacated |-> {p \in Pos : s.board[p] # Null
                                               /\ res.board[p] = Null}]]

CellClick(s, rowIndex, colIndex) ==
  LET g == ClickGuard(s, rowIndex, colIndex)
  IN IF g # "proceed"
     THEN NoEffect(s, <<>>, g = "throw")
     ELSE CHOOSE out \in
            {Commit(s, rowIndex, colIndex, res) :
               res \in {Resolve(s.board, rowIndex, colIndex, s.currentPlayer)}} :
            TRUE

\* A slip: handlePass without its gameOver guard.
Pass_NoGuard(s) ==
  [session |-> [s EXCEPT !.currentPlayer =
                  IF s.currentPlayer = "black" THEN "white" ELSE "black"],
   toasts |-> <<"Pass">>, threw |-> FALSE, place |-> NoPlace]

\* A slip: both branches of the turn flip give the same player.
Pass_SameTurn(s) ==
  IF s.gameOver
  THEN NoEffect(s, <<>>, FALSE)
  ELSE [session |-> [s EXCEPT !.currentPlayer =
                       IF s.currentPlayer = "black" THEN "white" ELSE "white"],
        toasts |-> <<"Pass">>, threw |-> FALSE, place |-> NoPlace]

Pass(s) ==
  IF s.gameOver
  THEN NoEffect(s, <<>>, FALSE)
  ELSE [session |-> [s EXCEPT !.currentPlayer =
                       IF s.currentPlayer = "black" THEN "white" ELSE "black"],
        toasts |-> <<"Pass">>, threw |-> FALSE, place |-> NoPlace]

\* A slip: the resignee set as the winner.
Resign_WinnerIsResignee(s) ==
  IF s.gameOver
  THEN NoEffect(s, <<>>, FALSE)
  ELSE [session |-> [s EXCEPT !.gameOver = TRUE, !.winner = s.currentPlayer],
        toasts |-> <<"Game Over">>, threw |-> FALSE, place |-> NoPlace]

Resign(s) ==
  IF s.gameOver
  THEN NoEffect(s, <<>>, FALSE)
  ELSE LET resignee == s.currentPlayer
           winnerPlayer == IF resignee = "black" THEN "white" ELSE "black"
       IN [session |-> [s EXCEPT !.gameOver = TRUE, !.winner = winnerPlayer],
           toasts |-> <<"Game Over">>, threw |-> FALSE, place |-> NoPlace]

\* A slip: setBlackScore(0) and setWhiteScore(0) forgotten.
Reset_KeepsTallies(s) ==
  [session |-> [board |-> createEmptyBoard,
                currentPlayer |-> "black",
                gameOver |-> FALSE,
                winner |-> Null,
                blackScore |-> s.blackScore,
                whiteScore |-> s.whiteScore],
   toasts |-> <<"Game Reset">>, threw |-> FALSE, place |-> NoPlace]

\* A slip: setWinner(null) forgotten.
Reset_KeepsWinner(s) ==
  [session |-> [board |-> createEmptyBoard,
                currentPlayer |-> "black",
                gameOver |-> FALSE,
                winner |-> s.winner,
                blackScore |-> 0,
                whiteScore |-> 0],
   toasts |-> <<"Game Reset">>, threw |-> FALSE, place |-> NoPlace]

Reset(s) ==
  [session |-> [board |-> createEmptyBoard,
                currentPlayer |-> "black",
                gameOver |-> FALSE,
                winner |-> Null,
                blackScore |-> 0,
                whiteScore |-> 0],
   toasts |-> <<"Game Reset">>, threw |-> FALSE, place |-> NoPlace]

VARIABLES
  board,          \* useState<Board>
  currentPlayer,  \* useState<Player>
  gameOver,       \* useState(false)
  winner,         \* useState<Player | null>
  blackScore,     \* useState(0)
  whiteScore,     \* useState(0)
  lastHandler,    \* the handler most recently invoked
  lastClick,      \* for handleCellClick: whether its coordinates were on the
                  \* board ("onBoard", "offBoard"); "none" for the others
  toasts,         \* titles of the toasts that invocation issued, in order
  threw,          \* whether that invocation ended in an exception
  lastPlace,      \* the placement that invocation committed, if any
  removed,        \* per player: opponent stones that left the board in
                  \* that player's committed placements since the last reset
  placed,         \* per player: placements of that player committed since
                  \* the last reset
  probe,          \* the latest direct call of getGroup or of the capture
                  \* scan on the board, with what it returned
  page,           \* page.tsx: the useState values of its Home component
  inflight,       \* page.tsx: the handleCellClick calls suspended at
                  \* `await validateMove`, each with its closure's values
  requests        \* page.tsx: validateMove calls issued so far

vars == <<board, currentPlayer, gameOver, winner, blackScore, whiteScore,
          lastHandler, lastClick, toasts, threw, lastPlace, removed,
          placed, probe, page, inflight, requests>>

\* No direct call made yet.
NoProbe ==
  [op |-> "none", at |-> <<>>, mover |-> Null,
   group |-> [stones |-> {}, liberties |-> {}, pushed |-> <<>>,
              expanded |-> <<>>],
   res |-> [board |-> createEmptyBoard, captured |-> 0]]

\* page.tsx after construction.
PageInit ==
  [board |-> createEmptyBoard, currentPlayer |-> "black", isThinking |-> FALSE,
   error |-> Null, gameOver |-> FALSE, winner |-> Null]

\* The session the next handler runs on.
Session ==
  [board |-> board, currentPlayer |-> currentPlayer, gameOver |-> gameOver,
   winner |-> winner, blackScore |-> blackScore, whiteScore |-> whiteScore]

Init ==
  /\ board = createEmptyBoard
  /\ currentPlayer = "black"
  /\ gameOver = FALSE
  /\ winner = Null
  /\ blackScore = 0
  /\ whiteScore = 0
  /\ lastHandler = "none"
  /\ lastClick = "none"
  /\ toasts = <<>>
  /\ threw = FALSE
  /\ lastPlace = NoPlace
  /\ removed = [p \in Player |-> 0]
  /\ placed = [p \in Player |-> 0]
  /\ probe = NoProbe
  /\ page = PageInit
  /\ inflight = {}
  /\ requests = 0

\* React commits the handler's updates; the bookkeeping variables follow.
Apply(handler, click, out) ==
  /\ out.session.blackScore + out.session.whiteScore <= MaxCaptures
  /\ board' = out.session.board
  /\ currentPlayer' = out.session.currentPlayer
  /\ gameOver' = out.session.gameOver
  /\ winner' = out.session.winner
  /\ blackScore' = out.session.blackScore
  /\ whiteScore' = out.session.whiteScore
  /\ lastHandler' = handler
  /\ lastClick' = click
  /\ toasts' = out.toasts
  /\ threw' = out.threw
  /\ lastPlace' = out.place
  /\ removed' =
       IF handler = "handleReset" THEN [p \in Player |-> 0]
       ELSE [p \in Player |->
               IF p = currentPlayer
               THEN removed[p] + CountStones(board, OpponentOf(p))
                               - CountStones(out.session.board, OpponentOf(p))
               ELSE removed[p]]
  /\ placed' =
       IF handler = "handleReset" THEN [p \in Player |-> 0]
       ELSE IF out.place # NoPlace
       THEN [placed EXCEPT ![currentPlayer] = placed[currentPlayer] + 1]
       ELSE placed
  /\ UNCHANGED <<probe, page, inflight, requests>>

handleCellClick(rowIndex, colIndex) ==
  \E out \in {CellClick(Session, rowIndex, colIndex)} :
     Apply("handleCellClick",
           IF InBounds(rowIndex, colIndex) THEN "onBoard" ELSE "offBoard", out)

handlePass == \E out \in {Pass(Session)} : Apply("handlePass", "none", out)

handleResign == \E out \in {Resign(Session)} : Apply("handleResign", "none", out)

handleReset == \E out \in {Reset(Session)} : Apply("handleReset", "none", out)

Next ==
  \/ \E click \in Clicks : handleCellClick(click[1], click[2])
  \/ handlePass
  \/ handleResign
  \/ handleReset

Spec == Init /\ [][Next]_vars

(***************************************************************************)
(* getGroup and the capture scan as functions of an arbitrary board: the   *)
(* board is drawn from every colouring of the grid and one direct call is  *)
(* made on it.                                                             *)
(***************************************************************************)
InitBoards ==
  /\ board \in [Pos -> Player \cup {Null}]
  /\ currentPlayer = "black"
  /\ gameOver = FALSE
  /\ winner = Null
  /\ blackScore = 0
  /\ whiteScore = 0
  /\ lastHandler = "none"
  /\ lastClick = "none"
  /\ toasts = <<>>
  /\ threw = FALSE
  /\ lastPlace = NoPlace
  /\ removed = [p \in Player |-> 0]
  /\ placed = [p \in Player |-> 0]
  /\ probe = NoProbe
  /\ page = PageInit
  /\ inflight = {}
  /\ requests = 0

\* getGroup(board, r, c); the call only reads targetBoard, so res.board is
\* the board it was given.
CallGetGroup(r, c) ==
  /\ probe = NoProbe
  /\ probe' = [op |-> "getGroup", at |-> <<r, c>>, mover |-> Null,
               group |-> getGroup(board, r, c),
               res |-> [board |-> board, captured |-> 0]]
  /\ UNCHANGED <<board, currentPlayer, gameOver, winner, blackScore,
                 whiteScore, lastHandler, lastClick, toasts, threw, lastPlace,
                 removed, placed, page, inflight, requests>>

\* The tentative placement and capture scan of handleCellClick for mover on
\* the empty point (r, c), and the getGroup call of the suicide test on the
\* working board the scan leaves.
CallResolve(r, c, mover) ==
  /\ probe = NoProbe
  /\ board[<<r, c>>] = Null
  /\ \E res \in {Resolve(board, r, c, mover)} :
       probe' = [op |-> "resolve", at |-> <<r, c>>, mover |-> mover,
                 group |-> getGroup(res.board, r, c), res |-> res]
  /\ UNCHANGED <<board, currentPlayer, gameOver, winner, blackScore,
                 whiteScore, lastHandler, lastClick, toasts, threw, lastPlace,
                 removed, placed, page, inflight, requests>>

NextBoards ==
  \/ \E p \in Pos : CallGetGroup(p[1], p[2])
  \/ \E p \in Pos, mover \in Player : CallResolve(p[1], p[2], mover)

SpecBoards == InitBoards /\ [][NextBoards]_vars

(***************************************************************************)
(* page.tsx: the page that validates each move through validateMove.  A    *)
(* handler runs on the values of the render it was created in; the         *)
(* continuation after `await validateMove` still holds those values.       *)
(***************************************************************************)
MaxRequests == 3

\* What the awaited call can come back with: isValid true, isValid false, or
\* a rejection caught by the catch block.
ValidateMoveOutcomes == {"valid", "invalid", "error"}

PageFull(b) == \A p \in Pos : b[p] # Null

PageUnchanged ==
  UNCHANGED <<board, currentPlayer, gameOver, winner, blackScore, whiteScore,
              lastHandler, lastClick, toasts, threw, lastPlace, removed,
              placed, probe>>

\* handleCellClick up to the await.
PageCellClick(rowIndex, colIndex) ==
  /\ requests < MaxRequests
  /\ IF page.gameOver \/ page.board[<<rowIndex, colIndex>>] # Null
        \/ page.isThinking
     THEN UNCHANGED <<page, inflight, requests>>
     ELSE /\ page' = [page EXCEPT !.isThinking = TRUE, !.error = Null]
          /\ inflight' = inflight \cup
               {[board |-> page.board, currentPlayer |-> page.currentPlayer,
                 rowIndex |-> rowIndex, colIndex |-> colIndex,
                 request |-> requests + 1]}
          /\ requests' = requests + 1
  /\ PageUnchanged

\* The board the continuation of call writes when the move is valid.
PageNewBoard(call) ==
  [call.board EXCEPT ![<<call.rowIndex, call.colIndex>>] = call.currentPlayer]

\* handleCellClick from the await on: try, catch and finally.
PageValidated(call, outcome) ==
  /\ call \in inflight
  /\ inflight' = inflight \ {call}
  /\ page' =
       IF outcome = "valid"
       THEN IF PageFull(PageNewBoard(call))
            THEN [page EXCEPT !.board = PageNewBoard(call),
                              !.gameOver = TRUE,
                              !.winner = call.currentPlayer,
                              !.isThinking = FALSE]
            ELSE [page EXCEPT !.board = PageNewBoard(call),
                              !.currentPlayer = OpponentOf(call.currentPlayer),
                              !.isThinking = FALSE]
       ELSE IF outcome = "invalid"
       THEN [page EXCEPT !.error = "Invalid move.", !.isThinking = FALSE]
       ELSE [page EXCEPT !.error = "Failed to validate move. Please try again.",
                         !.isThinking = FALSE]
  /\ UNCHANGED requests
  /\ PageUnchanged

PagePass ==
  /\ page' = IF page.gameOver \/ page.isThinking THEN page
             ELSE [page EXCEPT !.currentPlayer = OpponentOf(page.currentPlayer)]
  /\ UNCHANGED <<inflight, requests>>
  /\ PageUnchanged

PageResign ==
  /\ page' = IF page.gameOver \/ page.isThinking THEN page
             ELSE [page EXCEPT !.gameOver = TRUE,
                               !.winner = OpponentOf(page.currentPlayer)]
  /\ UNCHANGED <<inflight, requests>>
  /\ PageUnchanged

PageReset ==
  /\ page' = PageInit
  /\ UNCHANGED <<inflight, requests>>
  /\ PageUnchanged

NextPage ==
  \/ \E p \in Pos : PageCellClick(p[1], p[2])
  \/ \E call \in inflight, outcome \in ValidateMoveOutcomes :
        PageValidated(call, outcome)
  \/ PagePass
  \/ PageResign
  \/ PageReset

SpecPage == Init /\ [][NextPage]_vars

(***************************************************************************)
(* The vocabulary of the properties, defined from the rules of the game    *)
(* and not from the traversal: groups by closure under adjacency,          *)
(* liberties as adjacent empty points.                                     *)
(***************************************************************************)
Other(m) == CHOOSE q \in Player : q # m

Adjacent(p, q) ==
  \/ p[1] = q[1] /\ (p[2] = q[2] + 1 \/ q[2] = p[2] + 1)
  \/ p[2] = q[2] /\ (p[1] = q[1] + 1 \/ q[1] = p[1] + 1)

RECURSIVE Grow(_, _, _)
Grow(b, colour, S) ==
  LET T == S \cup {q \in Pos : b[q] = colour /\ \E x \in S : Adjacent(x, q)}
  IN IF T = S THEN S ELSE Grow(b, colour, T)

\* The maximal 4-connected same-colour set containing p.
GroupOf(b, p) == IF b[p] = Null THEN {} ELSE Grow(b, b[p], {p})

LibertiesOf(b, S) == {q \in Pos : b[q] = Null /\ \E x \in S : Adjacent(x, q)}

Tentative(b, p, m) == [b EXCEPT ![p] = m]

\* The opponent stones that m's stone at p leaves without a liberty: the
\* stones of every opponent group adjacent to p with no liberty on the
\* tentative board.
Dead(b, p, m) ==
  UNION {G \in {GroupOf(T, n) : n \in {x \in Pos : Adjacent(x, p)},
                                T \in {Tentative(b, p, m)}} :
           /\ G # {}
           /\ \A q \in G : b[q] = Other(m)
           /\ LibertiesOf(Tentative(b, p, m), G) = {}}

\* The board the rules prescribe after m's accepted placement at p.
AfterCapture(b, p, m) ==
  LET T == Tentative(b, p, m)
      dead == Dead(b, p, m)
  IN [q \in Pos |-> IF q \in dead THEN Null ELSE T[q]]

\* m's stone at p captures nothing and its own group has no liberty.
SuicideCase(b, p, m) ==
  /\ b[p] = Null
  /\ Dead(b, p, m) = {}
  /\ LibertiesOf(Tentative(b, p, m), GroupOf(Tentative(b, p, m), p)) = {}

InitialSession ==
  [board |-> [p \in Pos |-> Null], currentPlayer |-> "black",
   gameOver |-> FALSE, winner |-> Null, blackScore |-> 0, whiteScore |-> 0]

\* C1: in an InProgress session, a placement on an empty point that captures
\* nothing and leaves the mover's own group without a liberty is rejected as
\* suicide (the "Invalid Move" toast), and board, turn, both tallies, the
\* terminal flag and the winner stay as they were.
C1_SuicideRejected ==
  ~gameOver =>
    \A p \in Pos :
      SuicideCase(board, p, currentPlayer) =>
        \E out \in {CellClick(Session, p[1], p[2])} :
          /\ out.session = Session
          /\ out.toasts = <<"Invalid Move">>
          /\ ~out.threw
          /\ out.place = NoPlace

\* A suicide has just been rejected.
C1_Witness ==
  /\ lastHandler = "handleCellClick"
  /\ toasts = <<"Invalid Move">>
  /\ ~gameOver
  /\ \E p \in Pos : SuicideCase(board, p, currentPlayer)

\* C2: in an InProgress session, a placement on an empty point that captures
\* at least one opponent group is accepted, also when the mover's group has
\* no liberty on the tentative board; afterwards the mover's group has a
\* liberty at a point the capture vacated.
C2_CaptureAccepted ==
  ~gameOver =>
    \A p \in Pos :
      (board[p] = Null /\ Dead(board, p, currentPlayer) # {}) =>
        \E out \in {CellClick(Session, p[1], p[2])} :
          /\ out.place.pos = p
          /\ out.session.board[p] = currentPlayer
          /\ ~out.threw
          /\ out.toasts # <<>>
          /\ Head(out.toasts) = "Capture!"
          /\ LibertiesOf(out.session.board, GroupOf(out.session.board, p))
               \cap Dead(board, p, currentPlayer) # {}

\* A capturing placement has just been committed whose group has no liberty
\* but points the capture vacated.
C2_Witness ==
  /\ lastHandler = "handleCellClick"
  /\ lastPlace.pos # <<>>
  /\ lastPlace.vacated # {}
  /\ LibertiesOf(board, GroupOf(board, lastPlace.pos)) \subseteq lastPlace.vacated

\* C3: an accepted placement at p by mover m changes the board in exactly
\* these cells: p holds m's stone, and every stone of every opponent group
\* adjacent to p without a liberty after the placement is removed; every
\* other cell is unchanged.
C3_CommittedBoard ==
  ~gameOver =>
    \A p \in Pos :
      board[p] = Null =>
        \E out \in {CellClick(Session, p[1], p[2])} :
          out.place # NoPlace =>
            /\ out.place.pos = p
            /\ out.session.board = AfterCapture(board, p, currentPlayer)

\* A placement has just captured a group while another opponent stone next to
\* the placed stone stayed on the board.
C3_Witness ==
  /\ lastHandler = "handleCellClick"
  /\ lastPlace.pos # <<>>
  /\ lastPlace.vacated # {}
  /\ \E q \in Pos : /\ Adjacent(q, lastPlace.pos)
                    /\ board[q] # Null
                    /\ board[q] # board[lastPlace.pos]

\* C4: each tally equals the number of opponent stones that left the board
\* in that player's committed placements since the last reset; no Place,
\* Pass or Resign decreases a tally, a rejected Place, a Pass and a Resign
\* leave both as they are, and a placement never changes the tally of the
\* mover's opponent.
C4_TalliesAreCaptureSums ==
  /\ blackScore = removed["black"]
  /\ whiteScore = removed["white"]
  /\ \A r \in Coord, c \in Coord :
       \E out \in {CellClick(Session, r, c)} :
         /\ out.session.blackScore >= blackScore
         /\ out.session.whiteScore >= whiteScore
         /\ currentPlayer = "black" => out.session.whiteScore = whiteScore
         /\ currentPlayer = "white" => out.session.blackScore = blackScore
         /\ out.place = NoPlace =>
              /\ out.session.blackScore = blackScore
              /\ out.session.whiteScore = whiteScore
  /\ \A out \in {Pass(Session), Resign(Session)} :
       /\ out.session.blackScore = blackScore
       /\ out.session.whiteScore = whiteScore

\* Both players have captured.
C4_Witness ==
  /\ blackScore > 0
  /\ whiteScore > 0
  /\ removed["black"] > 0
  /\ removed["white"] > 0

C6_OutOfBoundsNoFault ==
  \A r \in Coord, c \in Coord :
    ~InBounds(r, c) =>
      \E out \in {CellClick(Session, r, c)} :
        /\ out.session = Session
        /\ ~out.threw

\* C7: once the session is Finished, every Place, Pass and Resign leaves
\* board, turn, both tallies, the terminal flag and the winner unchanged.
C7_FinishedAbsorbing ==
  gameOver =>
    /\ \A r \in Coord, c \in Coord : CellClick(Session, r, c).session = Session
    /\ Pass(Session).session = Session
    /\ Resign(Session).session = Session

\* A Place, Pass or Resign has just run on a Finished session.
C7_Witness ==
  /\ gameOver
  /\ lastHandler \in {"handleCellClick", "handlePass", "handleResign"}
  /\ toasts = <<>>

\* C8: Resign in an InProgress session finishes it with the opponent of the
\* player to move as winner; board and tallies are unchanged.
C8_ResignWinner ==
  ~gameOver =>
    \E out \in {Resign(Session)} :
      /\ out.session.gameOver
      /\ out.session.winner = Other(currentPlayer)
      /\ out.session.board = board
      /\ out.session.blackScore = blackScore
      /\ out.session.whiteScore = whiteScore

\* Black resigned after an odd number of passes: one black stone, no white
\* stone, no capture, Black to move, White wins.
C8_Witness ==
  /\ lastHandler = "handleResign"
  /\ toasts = <<"Game Over">>
  /\ gameOver
  /\ currentPlayer = "black"
  /\ winner = "white"
  /\ CountStones(board, "black") = 1
  /\ CountStones(board, "white") = 0
  /\ blackScore = 0
  /\ whiteScore = 0

\* C9: Pass in an InProgress session flips the turn and changes nothing else,
\* so no Pass ever finishes the session.
C9_PassFlipsTurnOnly ==
  ~gameOver =>
    Pass(Session).session = [Session EXCEPT !.currentPlayer = Other(currentPlayer)]

\* Two consecutive passes, one by each player, on the empty board: the
\* session is still InProgress.
C9_Witness ==
  /\ lastHandler = "handlePass"
  /\ toasts = <<"Pass">>
  /\ ~gameOver
  /\ winner = Null
  /\ currentPlayer = "black"
  /\ board = [p \in Pos |-> Null]
  /\ blackScore = 0
  /\ whiteScore = 0

\* C10: Reset from any reachable session yields the initial session.
C10_ResetYieldsInitial ==
  Reset(Session).session = InitialSession

\* Reset has just run and the session is the initial one.
C10_Witness ==
  /\ lastHandler = "handleReset"
  /\ Session = InitialSession
  /\ removed = [p \in Player |-> 0]

Full(b) == \A q \in Pos : b[q] # Null

StonesOnBoard(b) == Cardinality({q \in Pos : b[q] # Null})

\* A player's total on board b: capture tally plus stones on the board.
Total(b, tally, colour) == tally + Cardinality({q \in Pos : b[q] = colour})

\* C11: an accepted Place puts the mover's stone on the point and, unless it
\* ends the game, hands the turn to the opponent; a Place on an empty point
\* with an empty orthogonal neighbour is always accepted, adds exactly one
\* stone of the mover and flips the turn; a rejected Place and a Resign never
\* change the turn.
C11_AcceptedPlaceFlipsTurn ==
  /\ Resign(Session).session.currentPlayer = currentPlayer
  /\ \A r \in Coord, c \in Coord :
       \E out \in {CellClick(Session, r, c)} :
         /\ out.place = NoPlace => out.session.currentPlayer = currentPlayer
         /\ out.place # NoPlace =>
              /\ out.place.pos = <<r, c>>
              /\ out.session.board[<<r, c>>] = currentPlayer
              /\ ~out.session.gameOver =>
                   out.session.currentPlayer = Other(currentPlayer)
         /\ ( /\ ~gameOver
              /\ InBounds(r, c)
              /\ board[<<r, c>>] = Null
              /\ \E q \in Pos : Adjacent(q, <<r, c>>) /\ board[q] = Null ) =>
              /\ out.place.pos = <<r, c>>
              /\ Cardinality({q \in Pos : out.session.board[q] = currentPlayer})
                   = Cardinality({q \in Pos : board[q] = currentPlayer}) + 1
              /\ out.session.currentPlayer = Other(currentPlayer)

\* A stone has just been placed next to an empty point, without a capture,
\* and the turn is the opponent's.
C11_Witness ==
  /\ lastHandler = "handleCellClick"
  /\ lastPlace.pos # <<>>
  /\ lastPlace.vacated = {}
  /\ ~gameOver
  /\ board[lastPlace.pos] = Other(currentPlayer)
  /\ \E q \in Pos : Adjacent(q, lastPlace.pos) /\ board[q] = Null

PlayStep(s) ==
  {out.session :
     out \in {o \in {CellClick(s, p[1], p[2]) : p \in Pos} \cup {Pass(s)} :
                o.session.blackScore + o.session.whiteScore <= MaxCaptures}}

RECURSIVE PlayClosure(_, _)
PlayClosure(seen, frontier) ==
  IF frontier = {} THEN seen
  ELSE CHOOSE all \in
         {PlayClosure({s \in seen \cup new : TRUE}, new) :
            new \in {{s \in UNION {PlayStep(f) : f \in frontier} :
                        s \notin seen}}} : TRUE

C14_GroupAndLiberties ==
  (probe.op = "getGroup" /\ board[probe.at] # Null) =>
    /\ probe.group.stones = GroupOf(board, probe.at)
    /\ probe.group.liberties = LibertiesOf(board, GroupOf(board, probe.at))

\* getGroup has been called on a group of three or more stones that has at
\* least two liberties and touches a stone of the other colour.
C14_Witness ==
  /\ probe.op = "getGroup"
  /\ Cardinality(probe.group.stones) >= 3
  /\ Cardinality(probe.group.liberties) >= 2
  /\ \E q \in Pos : /\ board[q] = Other(board[probe.at])
                    /\ \E x \in probe.group.stones : Adjacent(x, q)

\* C15: for every board and start, getGroup called from any stone of the
\* returned set returns the identical stones and liberties.
C15_SameFromEveryStone ==
  probe.op = "getGroup" =>
    \A q \in probe.group.stones :
      \E g \in {getGroup(board, q[1], q[2])} :
        /\ g.stones = probe.group.stones
        /\ g.liberties = probe.group.liberties

\* getGroup has been called on a group of four or more stones, so there are
\* other stones to start from.
C15_Witness ==
  /\ probe.op = "getGroup"
  /\ Cardinality(probe.group.stones) >= 4
  /\ probe.group.liberties # {}

DeadGroups(b, p, m) ==
  {G \in {GroupOf(T, n) : n \in {x \in Pos : Adjacent(x, p)},
                          T \in {Tentative(b, p, m)}} :
     /\ G # {}
     /\ \A q \in G : b[q] = Other(m)
     /\ LibertiesOf(Tentative(b, p, m), G) = {}}

RECURSIVE SumSizes(_)
SumSizes(groups) ==
  IF groups = {} THEN 0
  ELSE LET G == CHOOSE H \in groups : TRUE
       IN Cardinality(G) + SumSizes(groups \ {G})

\* C17: a zero-liberty opponent group is captured once however many
\* neighbours of the placed point belong to it: the capture count of a
\* placement is the sum of the sizes of the distinct captured groups, and it
\* is the number of opponent stones that leave the board.
C17_CapturedOncePerGroup ==
  probe.op = "resolve" =>
    \E dead \in {DeadGroups(board, probe.at, probe.mover)} :
      /\ probe.res.captured = SumSizes(dead)
      /\ probe.res.captured =
           Cardinality({q \in Pos : board[q] = Other(probe.mover)})
           - Cardinality({q \in Pos : probe.res.board[q] = Other(probe.mover)})
      /\ \A q \in UNION dead : probe.res.board[q] = Null

\* The capture scan has removed a group that touches the placed point through
\* two or more of its neighbours.
C17_Witness ==
  /\ probe.op = "resolve"
  /\ probe.res.captured >= 3
  /\ \E G \in DeadGroups(board, probe.at, probe.mover) :
       Cardinality({q \in G : Adjacent(q, probe.at)}) >= 2

Occurrences(s, x) == Cardinality({i \in 1 .. Len(s) : s[i] = x})

\* C18 as claimed: the traversal terminates, and no point is put on the work
\* queue twice over the whole run.
C18_EnqueuedAtMostOnce ==
  probe.op = "getGroup" =>
    /\ SeqToSet(probe.group.pushed) = probe.group.stones
    /\ \A q \in probe.group.stones : Occurrences(probe.group.pushed, q) = 1

\* C18 amended: the traversal terminates; every stone of the group is added
\* to stones and expanded exactly once; a stone can be put on the queue more
\* than once, but at most once for each same-colour neighbour (the start
\* exactly once), a repeated entry being dropped when it is dequeued.
C18_ExpandedOnce ==
  probe.op = "getGroup" =>
    /\ SeqToSet(probe.group.expanded) = probe.group.stones
    /\ SeqToSet(probe.group.pushed) = probe.group.stones
    /\ \A q \in probe.group.stones :
         /\ Occurrences(probe.group.expanded, q) = 1
         /\ Occurrences(probe.group.pushed, q) >= 1
         /\ Occurrences(probe.group.pushed, q) <=
              IF q = probe.at THEN 1
              ELSE Cardinality({n \in probe.group.stones : Adjacent(n, q)})
    /\ Len(probe.group.pushed) <= 1 + 4 * Cardinality(probe.group.stones)

\* getGroup has returned from a traversal that put some stone on the queue
\* twice.
C18_Witness ==
  /\ probe.op = "getGroup"
  /\ \E q \in probe.group.stones : Occurrences(probe.group.pushed, q) >= 2

\* C19 as claimed: while a placement awaits validation nothing changes the
\* session, so the board, the turn and the terminal state are those its
\* handler started from, and the board it commits is the current board plus
\* the placed stone.
C19_ActionsSerialized ==
  \A call \in inflight :
    /\ page.board = call.board
    /\ page.currentPlayer = call.currentPlayer
    /\ ~page.gameOver
    /\ page.winner = Null
    /\ PageNewBoard(call)
         = [page.board EXCEPT ![<<call.rowIndex, call.colIndex>>] =
                                 call.currentPlayer]

\* C20: every reachable board has an empty point; no Place ever takes the
\* board-full branch, so no Place or Pass finishes the session, and every
\* Finished session has a winner.
C20_BoardNeverFull ==
  /\ \E p \in Pos : board[p] = Null
  /\ gameOver => winner \in Player
  /\ ~gameOver =>
       /\ \A p \in Pos :
            \E out \in {CellClick(Session, p[1], p[2])} :
              /\ ~out.session.gameOver
              /\ \E q \in Pos : out.session.board[q] = Null
              /\ "Game Over!" \notin SeqToSet(out.toasts)
       /\ ~Pass(Session).session.gameOver

\* The mover's stone on the last empty point has just been rejected as
\* suicide.
C20_Witness ==
  /\ lastHandler = "handleCellClick"
  /\ toasts = <<"Invalid Move">>
  /\ StonesOnBoard(board) = BOARD_SIZE * BOARD_SIZE - 1

\* C21: on every reachable board every group of stones, of either colour,
\* has at least one liberty.  The boards of accepted placements that take
\* the tallies past MaxCaptures are not states of the specification: they
\* are examined as results of the handler.
C21_EveryGroupHasLiberty ==
  /\ \A q \in Pos :
       board[q] # Null => LibertiesOf(board, GroupOf(board, q)) # {}
  /\ ~gameOver =>
       \A p \in Pos :
         board[p] = Null =>
           \E out \in {CellClick(Session, p[1], p[2])} :
             ( /\ out.place # NoPlace
               /\ out.session.blackScore + out.session.whiteScore
                    > MaxCaptures ) =>
               \A q \in Pos :
                 out.session.board[q] # Null =>
                   LibertiesOf(out.session.board,
                               GroupOf(out.session.board, q)) # {}

\* A capturing placement has just been committed, and a group of each colour
\* is down to a single liberty.
C21_Witness ==
  /\ lastHandler = "handleCellClick"
  /\ lastPlace.pos # <<>>
  /\ lastPlace.vacated # {}
  /\ \A colour \in Player :
       \E q \in Pos :
         /\ board[q] = colour
         /\ Cardinality(LibertiesOf(board, GroupOf(board, q))) = 1

\* The tally of the given colour.
Tally(s, colour) == IF colour = "black" THEN s.blackScore ELSE s.whiteScore

\* C22: since the last reset, for each colour the stones of that colour on
\* the board plus the capture tally of its opponent equal the placements that
\* colour has committed; a placement never removes a stone of the mover, the
\* opponent stones it removes are exactly what it adds to the mover's tally,
\* and Pass and Resign remove nothing.
C22_StoneConservation ==
  /\ \A colour \in Player :
       CountStones(board, colour) + Tally(Session, Other(colour))
         = placed[colour]
  /\ \A p \in Pos :
       \E out \in {CellClick(Session, p[1], p[2])} :
         /\ Cardinality({q \in Pos : out.session.board[q] = currentPlayer})
              = Cardinality({q \in Pos : board[q] = currentPlayer})
                + (IF out.place # NoPlace THEN 1 ELSE 0)
         /\ Cardinality({q \in Pos : board[q] = Other(currentPlayer)})
              - Cardinality({q \in Pos :
                               out.session.board[q] = Other(currentPlayer)})
              = Tally(out.session, currentPlayer)
                - Tally(Session, currentPlayer)
         /\ Tally(out.session, Other(currentPlayer))
              = Tally(Session, Other(currentPlayer))
  /\ \A out \in {Pass(Session), Resign(Session)} :
       out.session.board = board

\* After a capturing placement both colours have lost stones: each has
\* committed more placements than it has stones on the board.
C22_Witness ==
  /\ lastHandler = "handleCellClick"
  /\ lastPlace.vacated # {}
  /\ \A colour \in Player :
       /\ placed[colour] > CountStones(board, colour)
       /\ CountStones(board, colour) > 0

TypeOK ==
  /\ board \in [Pos -> Player \cup {Null}]
  /\ currentPlayer \in Player
  /\ gameOver \in BOOLEAN
  /\ winner \in Player \cup {Null}
  /\ blackScore \in 0 .. MaxCaptures
  /\ whiteScore \in 0 .. MaxCaptures
  /\ threw \in BOOLEAN
  /\ placed \in [Player -> 0 .. BOARD_SIZE * BOARD_SIZE + MaxCaptures]
====
